---- MODULE Spec2Model ----
(***************************************************************************)
(* PPT Note Sync (src/app.py): the script segmenter parse_script, the      *)
(* slide note applier process_ppt and the button handler that chains them. *)
(* A text is a sequence of one-character strings.  Positions are 1-based:  *)
(* a Python slice s[a:b] is SubSeq(s, a + 1, b), so a match whose Python   *)
(* span is (a, b) is kept here as start = a + 1 and end = b + 1 (the       *)
(* position of the first character after the match).                       *)
(***************************************************************************)
EXTENDS Integers, Sequences, FiniteSets, TLC

\* ------------------------------------------------------------------ bounds
MaxPieces == 4          \* pieces per script text, segmenter specification
MaxFlowPieces == 4      \* pieces per script text, whole-run specification
MaxSlides == 3          \* slides of the uploaded presentation

\* ------------------------------------------------------------- characters
IsSpace(c) == c \in {" ", "\n"}

IsDigit(c) == c \in {"0", "1", "2", "3", "4", "5", "6", "7", "8", "9"}

DigitVal(c) ==
  CASE c = "0" -> 0 [] c = "1" -> 1 [] c = "2" -> 2 [] c = "3" -> 3
    [] c = "4" -> 4 [] c = "5" -> 5 [] c = "6" -> 6 [] c = "7" -> 7
    [] c = "8" -> 8 [] c = "9" -> 9

\* re.IGNORECASE on the letters of the word Slide
Lower(c) ==
  CASE c = "S" -> "s" [] c = "L" -> "l" [] c = "I" -> "i"
    [] c = "D" -> "d" [] c = "E" -> "e" [] OTHER -> c

\* ------------------------------------------------------------ str.strip()
RECURSIVE LStrip(_)
LStrip(s) == IF s # <<>> /\ IsSpace(Head(s)) THEN LStrip(Tail(s)) ELSE s

RECURSIVE RStrip(_)
RStrip(s) ==
  IF s # <<>> /\ IsSpace(s[Len(s)]) THEN RStrip(SubSeq(s, 1, Len(s) - 1)) ELSE s

Strip(s) == RStrip(LStrip(s))

\* ------------------------------------------- re.sub(r'<[^>]+>', '', text)
RECURSIVE FirstGt(_, _)
\* position of the first ">" at or after p, 0 when there is none
FirstGt(s, p) ==
  IF p > Len(s) THEN 0 ELSE IF s[p] = ">" THEN p ELSE FirstGt(s, p + 1)

\* end (first position after) of a match of <[^>]+> starting at p, 0 if none
TagEndAt(s, p) ==
  IF p + 1 <= Len(s) /\ s[p] = "<" /\ s[p + 1] # ">"
  THEN LET q == FirstGt(s, p + 2) IN IF q = 0 THEN 0 ELSE q + 1
  ELSE 0

RECURSIVE SubTags(_, _)
SubTags(s, p) ==
  IF p > Len(s) THEN <<>>
  ELSE LET e == TagEndAt(s, p)
       IN IF e = 0 THEN <<s[p]>> \o SubTags(s, p + 1) ELSE SubTags(s, e)

\* a plausible slip: the tags are left in the text
StripTagsKept(s) == s

StripTags(s) == SubTags(s, 1)

\* ------------------------- re.finditer(r'###\s*Slide\s*(\d+)', IGNORECASE)
RECURSIVE SkipSpace(_, _)
SkipSpace(s, p) ==
  IF p <= Len(s) /\ IsSpace(s[p]) THEN SkipSpace(s, p + 1) ELSE p

RECURSIVE SkipDigits(_, _)
SkipDigits(s, p) ==
  IF p <= Len(s) /\ IsDigit(s[p]) THEN SkipDigits(s, p + 1) ELSE p

LitAt(s, p, lit) ==
  /\ p + Len(lit) - 1 <= Len(s)
  /\ \A k \in 1..Len(lit) : Lower(s[p + k - 1]) = lit[k]

\* the match of the marker pattern that starts at p: [end, ds, de] where
\* ds..de-1 are the digits of group(1); end = 0 when nothing matches at p
MarkerAt(s, p) ==
  IF ~LitAt(s, p, <<"#", "#", "#">>) THEN [end |-> 0, ds |-> 0, de |-> 0]
  ELSE LET a == SkipSpace(s, p + 3)
       IN IF ~LitAt(s, a, <<"s", "l", "i", "d", "e">>)
          THEN [end |-> 0, ds |-> 0, de |-> 0]
          ELSE LET b == SkipSpace(s, a + 5)
                   c == SkipDigits(s, b)
               IN IF c = b THEN [end |-> 0, ds |-> 0, de |-> 0]
                  ELSE [end |-> c, ds |-> b, de |-> c]

RECURSIVE FindFrom(_, _)
FindFrom(s, p) ==
  IF p > Len(s) THEN <<>>
  ELSE LET m == MarkerAt(s, p)
       IN IF m.end = 0 THEN FindFrom(s, p + 1)
          ELSE <<[start |-> p, end |-> m.end,
                  group1 |-> SubSeq(s, m.ds, m.de - 1)]>> \o FindFrom(s, m.end)

FindMarkers(s) == FindFrom(s, 1)

\* ------------------------------------------------------------------ int()
RECURSIVE int(_)
int(ds) ==
  IF ds = <<>> THEN 0
  ELSE 10 * int(SubSeq(ds, 1, Len(ds) - 1)) + DigitVal(ds[Len(ds)])

\* a plausible slip: the zero-based slide index is stored as the key
SlideNumZeroBased(match) == int(match.group1) - 1

SlideNum(match) == int(match.group1)

\* --------------------------------------------------- parse_script, pieces
\* the mapping is a dict: its entries and the order its keys were inserted
EmptyDict == [map |-> <<>>, order |-> <<>>]

Keys(d) == DOMAIN d.map

\* a plausible slip: the first marker of a slide number wins
SetItemFirstWins(d, k, v) ==
  IF k \in DOMAIN d.map THEN d
  ELSE [map |-> (k :> v) @@ d.map, order |-> Append(d.order, k)]

\* a plausible slip: a marker with empty content leaves no entry
SetItemNonEmpty(d, k, v) ==
  IF v = <<>> THEN d
  ELSE [map |-> (k :> v) @@ d.map,
        order |-> IF k \in DOMAIN d.map THEN d.order ELSE Append(d.order, k)]

SetItem(d, k, v) ==
  [map |-> (k :> v) @@ d.map,
   order |-> IF k \in DOMAIN d.map THEN d.order ELSE Append(d.order, k)]

\* a plausible slip: the content is stored untrimmed
ContentUntrimmed(s, ms, i) ==
  SubSeq(s, ms[i].end, IF i + 1 <= Len(ms) THEN ms[i + 1].start - 1 ELSE Len(s))

\* a plausible slip: the first segment starts at the top of the text
ContentFromTop(s, ms, i) ==
  Strip(SubSeq(s, IF i = 1 THEN 1 ELSE ms[i].end,
               IF i + 1 <= Len(ms) THEN ms[i + 1].start - 1 ELSE Len(s)))

\* content of the i-th match (i is 1-based here, enumerate's i plus one)
Content(s, ms, i) ==
  Strip(SubSeq(s, ms[i].end,
               IF i + 1 <= Len(ms) THEN ms[i + 1].start - 1 ELSE Len(s)))

\* a plausible slip: the fallback stores the text untrimmed
FallbackUntrimmed(s) == SetItem(EmptyDict, 1, s)

Fallback(s) == SetItem(EmptyDict, 1, Strip(s))

\* one pass of the for loop body
LoopBody(s, ms, i, d) == SetItem(d, SlideNum(ms[i]), Content(s, ms, i))

RECURSIVE LoopFrom(_, _, _, _)
LoopFrom(s, ms, i, d) ==
  IF i > Len(ms) THEN d ELSE LoopFrom(s, ms, i + 1, LoopBody(s, ms, i, d))

\* parse_script after its preprocessing line
Segments(s) ==
  LET ms == FindMarkers(s)
  IN IF ms = <<>> THEN Fallback(s) ELSE LoopFrom(s, ms, 1, EmptyDict)

parse_script(text) == Segments(StripTags(text))

\* ----------------------------------------------------------------- inputs
Marker1 == <<"#", "#", "#", "S", "l", "i", "d", "e", "1">>
Marker2 == <<"#", "#", "#", " ", "S", "L", "I", "D", "E", "\n", "2">>

Pieces ==
  { Marker1, Marker2, <<"#", "#", "#">>, <<"s", "l", "i", "d", "e">>,
    <<"0">>, <<"a">>, <<" ">>, <<"<", "b", ">">>, <<"<">>, <<">">> }

FlowPieces ==
  { Marker1, Marker2, <<"#", "#", "#", "s", "l", "i", "d", "e", "0">>,
    <<"a">>, <<" ">>, <<"<", "b", ">">> }

RECURSIVE TextsOf(_, _)
TextsOf(P, n) ==
  IF n = 0 THEN {<<>>}
  ELSE LET T == TextsOf(P, n - 1) IN T \cup {t \o p : t \in T, p \in P}


\* ------------------------------------------------------ process_ppt, pieces
OldNotes == <<"o", "l", "d">>

\* the value process_ppt returns: None is the record with ok = FALSE
None == [ok |-> FALSE, notes |-> <<>>]

\* prs.slides[slide_index] as Python resolves it, as a 1-based position:
\* a negative index counts from the end, 0 stands for IndexError
GetSlide(n, slide_index) ==
  IF 0 <= slide_index /\ slide_index < n THEN slide_index + 1
  ELSE IF slide_index < 0 /\ slide_index >= -n THEN n + slide_index + 1
  ELSE 0

\* a plausible slip: only the upper end of the range is tested
SkippedUpperOnly(slide_index, n) == slide_index >= n

\* the guard of the continue
Skipped(slide_index, n) == slide_index < 0 \/ slide_index >= n

\* a plausible slip: the content is appended to the notes already there
SetNotesAppend(old, content) == old \o content

\* text_frame.clear() followed by text_frame.text = content
SetNotes(old, content) == content

\* a plausible slip: the handler hands back what was done so far
ExceptReturnsPartial(p, count) == [result |-> [ok |-> TRUE, notes |-> p], count |-> count]

\* the return of the except branch
ExceptReturn(p, count) == [result |-> None, count |-> 0]

\* ------------------------------------------------------------------ state
VARIABLES
  pc,               \* position of the run
  pptx_file,        \* TRUE when a presentation was uploaded
  script_file,      \* the uploaded script: [present, docx, decodes, text]
  script_text,      \* the text handed to parse_script
  script_content,   \* parse_script's text after the tags are removed
  matches,          \* the marker matches, left to right
  i,                \* matches handled so far by the for loop
  result,           \* the dict parse_script builds
  prs,              \* notes text of each slide of the opened presentation
  j,                \* items of script_data handled so far by process_ppt
  processed_count,
  touched,          \* the indices prs.slides was subscripted with
  ret,              \* what process_ppt returned: [result, count]
  ui,               \* what the page shows
  download,         \* the download button: [shown, count, data]
  called            \* the functions that were invoked

vars ==
  <<pc, pptx_file, script_file, script_text, script_content, matches, i,
    result, prs, j, processed_count, touched, ret, ui, download, called>>

segVars == <<script_content, matches, i, result>>
pptVars == <<prs, j, processed_count, touched, ret>>

NoFile == [present |-> FALSE, docx |-> FALSE, decodes |-> FALSE, text |-> <<>>]

ScriptFiles(T) ==
  {NoFile}
    \cup {[present |-> TRUE, docx |-> d, decodes |-> FALSE, text |-> <<>>] :
            d \in BOOLEAN}
    \cup {[present |-> TRUE, docx |-> d, decodes |-> TRUE, text |-> t] :
            d \in BOOLEAN, t \in T}

Blank ==
  /\ script_content = <<>>
  /\ matches = <<>>
  /\ i = 0
  /\ result = EmptyDict
  /\ prs = <<>>
  /\ j = 0
  /\ processed_count = 0
  /\ touched = {}
  /\ ret = [result |-> None, count |-> 0]
  /\ ui = {}
  /\ download = [shown |-> FALSE, count |-> 0, data |-> None]
  /\ called = {}

\* the page with its two uploads, before the button is pressed
Init ==
  /\ pc = "button"
  /\ pptx_file \in BOOLEAN
  /\ script_file \in ScriptFiles(TextsOf(FlowPieces, MaxFlowPieces))
  /\ script_text = <<>>
  /\ Blank

\* a call of parse_script on its own
InitSeg ==
  /\ pc = "parse_script"
  /\ pptx_file = FALSE
  /\ script_file = NoFile
  /\ script_text \in TextsOf(Pieces, MaxPieces)
  /\ Blank

\* ------------------------------------------------------------ parse_script
\* lines 100-107: remove the tags, find the markers, result = {}
ParseEnter ==
  /\ pc = "parse_script"
  /\ script_content' = StripTags(script_text)
  /\ matches' = FindMarkers(script_content')
  /\ result' = EmptyDict
  /\ i' = 0
  /\ called' = called \cup {"parse_script"}
  /\ pc' = IF matches' = <<>> THEN "no_matches" ELSE "for"
  /\ UNCHANGED <<pptx_file, script_file, script_text, pptVars, ui, download>>

\* lines 109-112: no marker, the whole text goes to slide 1
ParseFallback ==
  /\ pc = "no_matches"
  /\ result' = Fallback(script_content)
  /\ pc' = "parsed"
  /\ UNCHANGED <<pptx_file, script_file, script_text, script_content, matches,
                 i, pptVars, ui, download, called>>

\* lines 115-129: one pass of the loop; the return follows the last pass
ParseFor ==
  /\ pc = "for"
  /\ i < Len(matches)
  /\ result' = LoopBody(script_content, matches, i + 1, result)
  /\ i' = i + 1
  /\ pc' = IF i' = Len(matches) THEN "parsed" ELSE "for"
  /\ UNCHANGED <<pptx_file, script_file, script_text, script_content, matches,
                 pptVars, ui, download, called>>

\* ------------------------------------------------------------- process_ppt
\* line 139 raises, lines 168-170
OpenFails ==
  /\ pc = "process_ppt"
  /\ called' = called \cup {"process_ppt"}
  /\ ret' = ExceptReturn(prs, processed_count)
  /\ ui' = ui \cup {"error"}
  /\ pc' = "returned"
  /\ UNCHANGED <<pptx_file, script_file, script_text, segVars, prs, j,
                 processed_count, touched, download>>

\* lines 139-142: the presentation opens with n slides
Open ==
  /\ pc = "process_ppt"
  /\ called' = called \cup {"process_ppt"}
  /\ \E n \in 0..MaxSlides : prs' = [k \in 1..n |-> OldNotes]
  /\ processed_count' = 0
  /\ j' = 0
  /\ pc' = "items"
  /\ UNCHANGED <<pptx_file, script_file, script_text, segVars, touched, ret,
                 ui, download>>

slide_num == result.order[j + 1]
slide_index == slide_num - 1

\* lines 143-148: the slide number is out of range, continue
ApplySkip ==
  /\ pc = "items"
  /\ j < Len(result.order)
  /\ Skipped(slide_index, Len(prs))
  /\ j' = j + 1
  /\ UNCHANGED <<pc, pptx_file, script_file, script_text, segVars, prs,
                 processed_count, touched, ret, ui, download, called>>

\* lines 150-159: the notes of the slide are replaced
ApplyWrite ==
  /\ pc = "items"
  /\ j < Len(result.order)
  /\ ~Skipped(slide_index, Len(prs))
  /\ GetSlide(Len(prs), slide_index) # 0
  /\ touched' = touched \cup {slide_index}
  /\ prs' = [prs EXCEPT ![GetSlide(Len(prs), slide_index)] =
               SetNotes(@, result.map[slide_num])]
  /\ processed_count' = processed_count + 1
  /\ j' = j + 1
  /\ UNCHANGED <<pc, pptx_file, script_file, script_text, segVars, ret, ui,
                 download, called>>

\* lines 150-158 raise (the subscript, the notes slide, the text frame,
\* before or after the clear), lines 168-170
ApplyFails ==
  /\ pc = "items"
  /\ j < Len(result.order)
  /\ ~Skipped(slide_index, Len(prs))
  /\ touched' = touched \cup {slide_index}
  /\ \/ UNCHANGED prs
     \/ /\ GetSlide(Len(prs), slide_index) # 0
        /\ prs' = [prs EXCEPT ![GetSlide(Len(prs), slide_index)] = <<>>]
  /\ ret' = ExceptReturn(prs', processed_count)
  /\ ui' = ui \cup {"error"}
  /\ pc' = "returned"
  /\ UNCHANGED <<pptx_file, script_file, script_text, segVars, j,
                 processed_count, download, called>>

\* lines 161-166: the presentation is saved and returned with the count
Save ==
  /\ pc = "items"
  /\ j = Len(result.order)
  /\ ret' = [result |-> [ok |-> TRUE, notes |-> prs], count |-> processed_count]
  /\ pc' = "returned"
  /\ UNCHANGED <<pptx_file, script_file, script_text, segVars, prs, j,
                 processed_count, touched, ui, download, called>>

\* line 163 raises, lines 168-170
SaveFails ==
  /\ pc = "items"
  /\ j = Len(result.order)
  /\ ret' = ExceptReturn(prs, processed_count)
  /\ ui' = ui \cup {"error"}
  /\ pc' = "returned"
  /\ UNCHANGED <<pptx_file, script_file, script_text, segVars, prs, j,
                 processed_count, touched, download, called>>

\* ---------------------------------------------------------- button handler
\* lines 209-214
Button ==
  /\ pc = "button"
  /\ IF ~pptx_file \/ ~script_file.present
     THEN ui' = ui \cup {"error"} /\ pc' = "end"
     ELSE ui' = ui /\ pc' = "read"
  /\ UNCHANGED <<pptx_file, script_file, script_text, segVars, pptVars,
                 download, called>>

\* lines 218-226 with extract_text_from_docx / extract_text_from_txt
\* (lines 66-92): a file that cannot be read yields "" and an error
Extract ==
  /\ pc = "read"
  /\ script_text' = IF script_file.decodes THEN script_file.text ELSE <<>>
  /\ called' = called \cup
       {IF script_file.docx THEN "extract_text_from_docx"
                            ELSE "extract_text_from_txt"}
  /\ IF script_text' = <<>>
     THEN ui' = ui \cup {"error"} /\ pc' = "end"
     ELSE ui' = ui /\ pc' = "parse_script"
  /\ UNCHANGED <<pptx_file, script_file, segVars, pptVars, download>>

\* lines 229-232: parse_script has returned, process_ppt is called
CallProcess ==
  /\ pc = "parsed"
  /\ pptx_file
  /\ pc' = "process_ppt"
  /\ UNCHANGED <<pptx_file, script_file, script_text, segVars, pptVars, ui,
                 download, called>>

\* lines 232-254
Show ==
  /\ pc = "returned"
  /\ IF ret.result.ok
     THEN /\ ui' = ui \cup {"success_box", "download_button"}
          /\ download' = [shown |-> TRUE, count |-> ret.count, data |-> ret.result]
     ELSE UNCHANGED <<ui, download>>
  /\ pc' = "end"
  /\ UNCHANGED <<pptx_file, script_file, script_text, segVars, pptVars, called>>

NextSeg == ParseEnter \/ ParseFallback \/ ParseFor

Next ==
  \/ Button \/ Extract \/ ParseEnter \/ ParseFallback \/ ParseFor
  \/ CallProcess \/ OpenFails \/ Open \/ ApplySkip \/ ApplyWrite \/ ApplyFails
  \/ Save \/ SaveFails \/ Show

Spec == Init /\ [][Next]_vars

SpecSeg == InitSeg /\ [][NextSeg]_vars


\* ------------------------------------------------------------- properties
\* v is raw with whitespace, and nothing else, taken off both ends
IsTrimOf(v, raw) ==
  /\ v = <<>> \/ (~IsSpace(v[1]) /\ ~IsSpace(v[Len(v)]))
  /\ \E a \in 0..Len(raw) : \E b \in 0..(Len(raw) - a) :
       /\ v = SubSeq(raw, a + 1, Len(raw) - b)
       /\ \A k \in 1..a : IsSpace(raw[k])
       /\ \A k \in (Len(raw) - b + 1)..Len(raw) : IsSpace(raw[k])

\* the text between the token of the k-th marker and the token of the next
RawSegment(k) ==
  SubSeq(script_content, matches[k].end,
         IF k < Len(matches) THEN matches[k + 1].start - 1
                             ELSE Len(script_content))

NumberOf(k) == SlideNum(matches[k])

HasTag(v) == \E p \in 1..Len(v) : TagEndAt(v, p) # 0

HasMarker(v) == \E p \in 1..Len(v) : MarkerAt(v, p).end # 0

\* C1 as stated: for every marker m_k of the tag-stripped text, the value
\* stored for the slide number of m_k is the text from the end of its token
\* to the start of the next token, or to the end of the text, trimmed.
C1_AsStated ==
  (pc = "parsed" /\ matches # <<>>) =>
    \A k \in 1..Len(matches) :
      /\ NumberOf(k) \in Keys(result)
      /\ IsTrimOf(result.map[NumberOf(k)], RawSegment(k))

\* C1 amended: once the loop has handled the markers m_1..m_i of the tag-stripped
\* text, the value stored for the slide number of every handled marker that
\* no later handled marker redeclares (the one just handled among them) is
\* the text from the end of its token to the start of the next token, or to
\* the end of the text, trimmed; no value begins or ends with whitespace and
\* no value contains a marker token.  For a slide number that a later marker
\* redeclares, the later marker's text is the one stored.
C1_SegmentStored ==
  (pc \in {"for", "parsed"} /\ matches # <<>>) =>
    /\ \A k \in 1..i :
         (\A k2 \in (k + 1)..i : NumberOf(k2) # NumberOf(k)) =>
           /\ NumberOf(k) \in Keys(result)
           /\ IsTrimOf(result.map[NumberOf(k)], RawSegment(k))
    /\ \A n \in Keys(result) :
         /\ result.map[n] = <<>>
              \/ (~IsSpace(result.map[n][1])
                    /\ ~IsSpace(result.map[n][Len(result.map[n])]))
         /\ ~HasMarker(result.map[n])

C1_Witness ==
  /\ pc = "parsed"
  /\ Len(matches) >= 2
  /\ NumberOf(1) # NumberOf(2)
  /\ result.map[NumberOf(1)] # <<>>
  /\ result.map[NumberOf(1)] # RawSegment(1)

\* C2: when several markers declare the same slide number, the mapping has
\* one entry for it and its value is the trimmed content of the last of them
\* in text order.
C2_LastWins ==
  (pc = "parsed" /\ matches # <<>>) =>
    \A k \in 1..Len(matches) :
      LET last == CHOOSE m \in 1..Len(matches) :
                    /\ NumberOf(m) = NumberOf(k)
                    /\ \A m2 \in (m + 1)..Len(matches) : NumberOf(m2) # NumberOf(k)
      IN /\ NumberOf(k) \in Keys(result)
         /\ IsTrimOf(result.map[NumberOf(k)], RawSegment(last))
         /\ Cardinality({x \in 1..Len(result.order) :
                           result.order[x] = NumberOf(k)}) = 1

C2_Witness ==
  /\ pc = "parsed"
  /\ Len(matches) >= 2
  /\ NumberOf(1) = NumberOf(2)
  /\ ~IsTrimOf(result.map[NumberOf(1)], RawSegment(1))

\* C3 as stated: with zero markers the mapping has exactly one entry, keyed
\* 1, whose value is the trimmed input.
C3_AsStated ==
  (pc = "parsed" /\ matches = <<>>) =>
    /\ Keys(result) = {1}
    /\ IsTrimOf(result.map[1], script_text)

\* C3 amended: when the tag-stripped text has zero markers the mapping has
\* exactly one entry, keyed 1, whose value is the trimmed tag-stripped text;
\* parse_script never returns an empty mapping.
C3_Fallback ==
  (pc = "parsed") =>
    /\ Keys(result) # {}
    /\ matches = <<>> =>
         /\ Keys(result) = {1}
         /\ result.order = <<1>>
         /\ IsTrimOf(result.map[1], script_content)

C3_Witness ==
  /\ pc = "parsed"
  /\ matches = <<>>
  /\ script_content # script_text
  /\ result.map[1] # <<>>
  /\ result.map[1] # script_content

\* C4 as stated: every key of the mapping is an integer >= 1.
C4_AsStated ==
  (pc = "parsed") => \A n \in Keys(result) : n \in Nat /\ n >= 1

AllZeros(k) ==
  \A x \in 1..Len(matches[k].group1) : matches[k].group1[x] = "0"

\* C4 amended: every key of the mapping is an integer >= 0, and 0 is a key
\* exactly when a marker's digits are all zeros; the fallback key is 1.
C4_KeysNatural ==
  /\ (pc \in {"for", "parsed"}) =>
       \A n \in Keys(result) :
         /\ n \in Nat
         /\ n = 0 => \E k \in 1..Len(matches) : AllZeros(k)
  /\ (pc = "parsed") =>
       /\ \A k \in 1..Len(matches) : AllZeros(k) => 0 \in Keys(result)
       /\ matches = <<>> => Keys(result) = {1}

C4_Witness ==
  /\ pc = "parsed"
  /\ 0 \in Keys(result)
  /\ 1 \in Keys(result)

\* the input with its leftmost tag deleted
WithoutFirstTag(t) ==
  LET p == CHOOSE q \in 1..Len(t) :
             TagEndAt(t, q) # 0 /\ \A r \in 1..(q - 1) : TagEndAt(t, r) = 0
  IN SubSeq(t, 1, p - 1) \o SubSeq(t, TagEndAt(t, p), Len(t))

\* C5: no value of the mapping contains a tag, and a tag does not split the
\* text around it: the mapping is the one of the input with the tag deleted
\* and its neighbours joined.
C5_TagsStripped ==
  (pc = "parsed") =>
    /\ \A n \in Keys(result) : ~HasTag(result.map[n])
    /\ HasTag(script_text) => result = parse_script(WithoutFirstTag(script_text))

C5_Witness ==
  /\ pc = "parsed"
  /\ matches # <<>>
  /\ \E p \in 2..Len(script_text) :
       /\ TagEndAt(script_text, p) # 0
       /\ TagEndAt(script_text, p) <= Len(script_text)
       /\ script_text[p - 1] = "a"
       /\ script_text[TagEndAt(script_text, p)] = "a"
  /\ \E n \in Keys(result) : result.map[n] = <<"a", "a">>

\* C9: when the text has k >= 1 markers for pairwise distinct slide numbers
\* the mapping has exactly k entries, keyed by those numbers.
C9_OneEntryPerMarker ==
  (/\ pc = "parsed"
   /\ matches # <<>>
   /\ \A a, b \in 1..Len(matches) : a # b => NumberOf(a) # NumberOf(b)) =>
    /\ Cardinality(Keys(result)) = Len(matches)
    /\ Keys(result) = {int(matches[k].group1) : k \in 1..Len(matches)}
    /\ Len(result.order) = Len(matches)

C9_Witness ==
  /\ pc = "parsed"
  /\ Len(matches) = 2
  /\ Cardinality(Keys(result)) = 2
  /\ 1 \notin Keys(result)
  /\ \E n \in Keys(result) : result.map[n] = <<>>

\* the text before the first marker
Preamble == SubSeq(script_content, 1, matches[1].start - 1)

\* C10: when the tag-stripped text has a marker, the text before the first
\* marker goes to no slide: the mapping is the one of the text with that
\* part cut off, and slide 1 is a key only if a marker declares it.
C10_PreambleDropped ==
  (pc = "parsed" /\ matches # <<>>) =>
    /\ result = Segments(SubSeq(script_content, matches[1].start,
                                Len(script_content)))
    /\ 1 \in Keys(result) => \E k \in 1..Len(matches) : NumberOf(k) = 1

C10_Witness ==
  /\ pc = "parsed"
  /\ matches # <<>>
  /\ \E x \in 1..Len(Preamble) : Preamble[x] = "a"
  /\ 1 \notin Keys(result)


\* the slide numbers of the mapping that name a slide of the presentation
InRange(d, n) == {k \in Keys(d) : 1 <= k /\ k <= n}

RECURSIVE CountInRange(_, _, _)
\* how many of the first m keys, in dict order, name a slide
CountInRange(order, m, n) ==
  IF m = 0 THEN 0
  ELSE CountInRange(order, m - 1, n)
         + (IF 1 <= order[m] /\ order[m] <= n THEN 1 ELSE 0)

\* C6: process_ppt subscripts prs.slides only within [0, N-1]; entries whose
\* slide number is > N or < 1 are passed over without an error and without a
\* count, so the count so far is the number of entries handled so far with
\* 1 <= slideNumber <= N, and the returned count is the number of such
\* entries of the mapping, at most the number of entries and at most N.
C6_CountInRange ==
  /\ \A x \in touched : 0 <= x /\ x <= Len(prs) - 1
  /\ pc = "items" =>
       /\ processed_count = CountInRange(result.order, j, Len(prs))
       /\ "error" \notin ui
  /\ (pc \in {"returned", "end"} /\ ret.result.ok) =>
       /\ ret.count = Cardinality(InRange(result, Len(prs)))
       /\ 0 <= ret.count
       /\ ret.count <= Cardinality(Keys(result))
       /\ ret.count <= Len(prs)

C6_Witness ==
  /\ pc = "end"
  /\ download.shown
  /\ download.count = 1
  /\ Len(prs) = 1
  /\ Keys(result) = {0, 1, 2}

\* C7: after a pass that succeeded, the notes of every slide k that is a key
\* of the mapping are the mapping's text for k and nothing else, and every
\* other slide keeps the notes it had.
C7_NotesOverwritten ==
  (pc \in {"returned", "end"} /\ ret.result.ok) =>
    /\ Len(ret.result.notes) = Len(prs)
    /\ \A k \in 1..Len(prs) :
         ret.result.notes[k] =
           IF k \in Keys(result) THEN result.map[k] ELSE OldNotes

C7_Witness ==
  /\ pc = "end"
  /\ download.shown
  /\ Len(prs) = 3
  /\ Keys(result) = {2}
  /\ result.map[2] = <<"a">>
  /\ download.data.notes = <<OldNotes, <<"a">>, OldNotes>>

\* C8: once a run has reported an error (the script cannot be read, or
\* opening, changing or saving the presentation raised, also after some
\* slides were written), process_ppt has returned (None, 0) if it returned,
\* neither the success box nor the download button is shown, and no count
\* is shown; when the script cannot be read, parse_script and process_ppt
\* are never invoked.
C8_NoPartialOutput ==
  /\ "error" \in ui =>
       /\ ret = [result |-> None, count |-> 0]
       /\ "success_box" \notin ui
       /\ "download_button" \notin ui
       /\ ~download.shown
  /\ (script_file.present /\ ~script_file.decodes) =>
       called \cap {"parse_script", "process_ppt"} = {}
  /\ download.shown => (ret.result.ok /\ download.count = ret.count)

C8_Witness ==
  /\ pc = "end"
  /\ "error" \in ui
  /\ "process_ppt" \in called
  /\ processed_count >= 1
  /\ j < Len(result.order)
  /\ \E k \in 1..Len(prs) : prs[k] # OldNotes

C8_WitnessDecode ==
  /\ pc = "end"
  /\ pptx_file
  /\ script_file.present
  /\ ~script_file.decodes
  /\ "error" \in ui

====
